---- MODULE Spec2Model ----
(***************************************************************************)
(* Model of scripts/tiny_pyviewer/tools.py of HighMap: the mesh builder    *)
(* hmap_to_trimesh and the scene composer show.                            *)
(*                                                                         *)
(* numpy arrays are records [shape, data]: shape is the tuple of           *)
(* dimensions and data the row-major (C order) sequence of elements, so    *)
(* that python's a[k] on a flat array is data[k + 1].                      *)
(* Real numbers are exact rationals <<num, den>>; python's None inside an  *)
(* object array is the empty tuple.  Heights are kept as integers in units *)
(* of 1/Scale, Scale chosen so that 0.05 * ptp stays exact over MaxCalls   *)
(* successive skirts.                                                      *)
(***************************************************************************)
EXTENDS Integers, Sequences, FiniteSets, TLC

\* ---- bounds of the model ------------------------------------------------
MaxN == 3
MaxHigh == 1
MaxCalls == 2
MaxMeshes == 2

Scale == 20 ^ MaxCalls

VARIABLES z, z_orig, z_in, x, y, add_skirt, status, mesh, calls,
          sh_mesh, print_kcmds, offscreen, plot_image, sh_status, scene,
          centroid, viewer, printed, img, ret

mvars == <<z, z_orig, z_in, x, y, add_skirt, status, mesh, calls>>
svars == <<sh_mesh, print_kcmds, offscreen, plot_image, sh_status, scene,
           centroid, viewer, printed, img, ret>>
vars == <<z, z_orig, z_in, x, y, add_skirt, status, mesh, calls,
          sh_mesh, print_kcmds, offscreen, plot_image, sh_status, scene,
          centroid, viewer, printed, img, ret>>

\* ---- numpy helpers ------------------------------------------------------
NoneVal == <<>>

\* python's None passed where an array is expected: np.asanyarray(None) is a
\* 0-d object array holding None
NoneArg == [shape |-> <<>>, data |-> <<NoneVal>>]

IsNone(a) == a.shape = <<>>

Max2(a, b) == IF a >= b THEN a ELSE b

Min2(a, b) == IF a <= b THEN a ELSE b

\* python slice a[lo:hi] of a flat sequence, 0 <= lo, 0 <= hi
Slice(a, lo, hi) == SubSeq(a, Min2(lo, Len(a)) + 1, Min2(hi, Len(a)))

\* z.min() and z.max() of an integer-valued array
ArrMin(a) == CHOOSE m \in {a.data[k] : k \in 1..Len(a.data)} :
                \A k \in 1..Len(a.data) : m <= a.data[k]

ArrMax(a) == CHOOSE m \in {a.data[k] : k \in 1..Len(a.data)} :
                \A k \in 1..Len(a.data) : m >= a.data[k]

\* z.ptp(): peak to peak
Ptp(a) == ArrMax(a) - ArrMin(a)

\* np.linspace(0, stop, num) for a rational stop = <<sn, sd>>; num >= 1
Linspace(sn, sd, num) ==
    [shape |-> <<num>>,
     data  |-> [k \in 1..num |->
                  IF num = 1 THEN <<0, 1>>
                  ELSE <<(k - 1) * sn, sd * (num - 1)>>]]

\* np.meshgrid(a, b, indexing='ij'): both inputs are flattened first
MeshgridX(a, b) ==
    LET la == Len(a.data)
        lb == Len(b.data)
    IN [shape |-> <<la, lb>>,
        data  |-> [k \in 1..(la * lb) |-> a.data[((k - 1) \div lb) + 1]]]

MeshgridY(a, b) ==
    LET la == Len(a.data)
        lb == Len(b.data)
    IN [shape |-> <<la, lb>>,
        data  |-> [k \in 1..(la * lb) |-> b.data[((k - 1) % lb) + 1]]]

\* np.vstack((a, b, c)).T of three flat sequences; numpy raises ValueError
\* when the lengths differ
VstackT(a, b, c) ==
    IF Len(a) = Len(b) /\ Len(b) = Len(c)
    THEN [ok |-> TRUE, rows |-> [k \in 1..Len(a) |-> <<a[k], b[k], c[k]>>]]
    ELSE [ok |-> FALSE, rows |-> <<>>]

\* ---- hmap_to_trimesh ----------------------------------------------------
\* the floor taken above the minimum instead of below it
SkirtFloorAbove(zz) == ArrMin(zz) + (5 * Ptp(zz)) \div 100

\* z0 = z.min() - 0.05 * z.ptp()
SkirtFloor(zz) == ArrMin(zz) - (5 * Ptp(zz)) \div 100

\* z[:r + 1, :] = v, a slice where the row index was meant
SetRowSlice(zz, r, v) ==
    LET ny == zz.shape[2]
    IN [zz EXCEPT !.data = [k \in 1..Len(zz.data) |->
            IF (k - 1) \div ny <= r THEN v ELSE zz.data[k]]]

\* z[r, :] = v
SetRow(zz, r, v) ==
    LET ny == zz.shape[2]
    IN [zz EXCEPT !.data = [k \in 1..Len(zz.data) |->
            IF (k - 1) \div ny = r THEN v ELSE zz.data[k]]]

\* z[:, c] = v
SetCol(zz, c, v) ==
    LET ny == zz.shape[2]
    IN [zz EXCEPT !.data = [k \in 1..Len(zz.data) |->
            IF (k - 1) % ny = c THEN v ELSE zz.data[k]]]

\* the four border assignments, in the order of the source
Skirt(zz) ==
    LET nx == zz.shape[1]
        ny == zz.shape[2]
        z0 == SkirtFloor(zz)
    IN SetCol(SetCol(SetRow(SetRow(zz, 0, z0), nx - 1, z0), 0, z0), ny - 1, z0)

\* indices counted from 1: np.linspace(1, nn, nn).astype(int)
IdxFromOne(nn) == [k \in 1..nn |-> k]

\* idx = np.linspace(0, nn - 1, nn).astype(int)
Idx(nn) == [k \in 1..nn |->
              IF nn = 1 THEN 0 ELSE ((k - 1) * (nn - 1)) \div (nn - 1)]

\* the first list of triangles with its second and third rows exchanged
FacesAFlipped(idx, i1, ny) ==
    VstackT(Slice(idx, i1, i1 + ny - 1),
            Slice(idx, i1 + 1, i1 + ny),
            Slice(idx, i1 + ny + 1, i1 + 2 * ny)).rows

\* the first list of triangles of strip j
FacesA(idx, i1, ny) ==
    VstackT(Slice(idx, i1, i1 + ny - 1),
            Slice(idx, i1 + ny + 1, i1 + 2 * ny),
            Slice(idx, i1 + 1, i1 + ny)).rows

\* the second list of triangles using the other diagonal's corner i + 1
FacesBOther(idx, i1, ny) ==
    VstackT(Slice(idx, i1, i1 + ny - 1),
            Slice(idx, i1 + ny, i1 + 2 * ny - 1),
            Slice(idx, i1 + 1, i1 + ny)).rows

\* the second list of triangles of strip j
FacesB(idx, i1, ny) ==
    VstackT(Slice(idx, i1, i1 + ny - 1),
            Slice(idx, i1 + ny, i1 + 2 * ny - 1),
            Slice(idx, i1 + ny + 1, i1 + 2 * ny)).rows

RECURSIVE FacesLoop(_, _, _, _)
\* for j in range(nx - 1): faces += ...
FacesLoop(j, nx, ny, idx) ==
    IF j >= nx - 1 THEN <<>>
    ELSE FacesA(idx, j * ny, ny) \o FacesB(idx, j * ny, ny)
         \o FacesLoop(j + 1, nx, ny, idx)

\* z.flatten() as vertex coordinates
ZFlat(zz) == [k \in 1..Len(zz.data) |-> <<zz.data[k], Scale>>]

\* the coordinate grids: synthesized when x is None, else meshgrid(x, y)
CoordX(xa, ya, nx, ny) ==
    IF IsNone(xa)
    THEN MeshgridX(Linspace(nx, Max2(nx, ny), nx), Linspace(ny, Max2(nx, ny), ny))
    ELSE MeshgridX(xa, ya)

CoordY(xa, ya, nx, ny) ==
    IF IsNone(xa)
    THEN MeshgridY(Linspace(nx, Max2(nx, ny), nx), Linspace(ny, Max2(nx, ny), ny))
    ELSE MeshgridY(xa, ya)

\* trimesh.Trimesh(vertices=xyz, faces=faces): the vertices are converted to
\* float64, which raises TypeError on a None entry
Trimesh(xyz, faces) ==
    IF \E k \in 1..Len(xyz) : \E c \in 1..3 : xyz[k][c] = NoneVal
    THEN [status |-> "TypeError", mesh |-> [vertices |-> <<>>, faces |-> <<>>]]
    ELSE [status |-> "ok", mesh |-> [vertices |-> xyz, faces |-> faces]]

\* the whole call: the grid after the call and the call's outcome
HmapResult(zz, xa, ya, skirt) ==
    LET nx  == zz.shape[1]
        ny  == zz.shape[2]
        z1  == IF skirt THEN Skirt(zz) ELSE zz
        xyz == VstackT(CoordX(xa, ya, nx, ny).data,
                       CoordY(xa, ya, nx, ny).data,
                       ZFlat(z1))
        nn  == nx * ny
        out == IF xyz.ok
               THEN Trimesh(xyz.rows, FacesLoop(0, nx, ny, Idx(nn)))
               ELSE [status |-> "ValueError",
                     mesh |-> [vertices |-> <<>>, faces |-> <<>>]]
    IN [z |-> z1, status |-> out.status, mesh |-> out.mesh]

\* ---- inputs -------------------------------------------------------------
\* 1D axes of n samples: x = 10, 11, ... and y = 20, 21, ...
XAxis(n) == [shape |-> <<n>>, data |-> [k \in 1..n |-> <<10 + k - 1, 1>>]]

YAxis(n) == [shape |-> <<n>>, data |-> [k \in 1..n |-> <<20 + k - 1, 1>>]]

\* full 2D coordinate grids ('ij' indexing) of shape (nx, ny)
GridX(nx, ny) ==
    [shape |-> <<nx, ny>>,
     data |-> [k \in 1..(nx * ny) |-> <<10 + ((k - 1) \div ny), 1>>]]

GridY(nx, ny) ==
    [shape |-> <<nx, ny>>,
     data |-> [k \in 1..(nx * ny) |-> <<20 + ((k - 1) % ny), 1>>]]

\* the (x, y) argument pairs a call is tried with: omitted, matching 1D axes,
\* swapped 1D axes, 1D axes of lengths (nx * ny, 1), an x axis one sample too
\* long, full 2D grids, and x given with y omitted
CoordArgs(nx, ny) ==
    {<<NoneArg, NoneArg>>,
     <<XAxis(nx), YAxis(ny)>>,
     <<XAxis(ny), YAxis(nx)>>,
     <<XAxis(nx * ny), YAxis(1)>>,
     <<XAxis(nx + 1), YAxis(ny)>>,
     <<GridX(nx, ny), GridY(nx, ny)>>,
     <<XAxis(nx), NoneArg>>}

\* height grids of shape (nx, ny): flat at 0 but for at most MaxHigh samples
\* raised to 1
Grids(nx, ny) ==
    {[shape |-> <<nx, ny>>,
      data |-> [k \in 1..(nx * ny) |-> IF k \in hi THEN Scale ELSE 0]] :
        hi \in {h \in SUBSET (1..(nx * ny)) : Cardinality(h) <= MaxHigh}}

NoMesh == [vertices |-> <<>>, faces |-> <<>>]

InitShowVars ==
    /\ sh_mesh = [is_list |-> TRUE, items |-> <<>>]
    /\ print_kcmds = TRUE
    /\ offscreen = FALSE
    /\ plot_image = TRUE
    /\ sh_status = "none"
    /\ scene = [meshes |-> 0, cameras |-> 0, lights |-> 0]
    /\ centroid = <<>>
    /\ viewer = <<>>
    /\ printed = FALSE
    /\ img = <<>>
    /\ ret = "none"

Init ==
    /\ \E nx \in 1..MaxN, ny \in 1..MaxN : z \in Grids(nx, ny)
    /\ z_orig = z
    /\ z_in = z
    /\ x = NoneArg
    /\ y = NoneArg
    /\ add_skirt = FALSE
    /\ status = "none"
    /\ mesh = NoMesh
    /\ calls = 0
    /\ InitShowVars

\* one call mesh = hmap_to_trimesh(z, x, y, add_skirt) on the caller's grid
HmapToTrimesh ==
    /\ calls < MaxCalls
    /\ \E skirt \in BOOLEAN :
         \E xy \in CoordArgs(z.shape[1], z.shape[2]) :
           LET r == HmapResult(z, xy[1], xy[2], skirt)
           IN /\ z' = r.z
              /\ z_in' = z
              /\ x' = xy[1]
              /\ y' = xy[2]
              /\ add_skirt' = skirt
              /\ status' = r.status
              /\ mesh' = r.mesh
    /\ calls' = calls + 1
    /\ UNCHANGED <<z_orig, svars>>

\* ---- show ---------------------------------------------------------------
\* the names the module binds at import time
Imports == {"np", "pyrender", "trimesh"}

\* the geometric centroids of the meshes handed to show
Centroids == {<<0, 0, 0>>, <<10, 0, 0>>, <<0, 10, 0>>}

RECURSIVE SumCoord(_, _)
\* centroid += np.array(m.centroid), one coordinate
SumCoord(items, c) ==
    IF items = <<>> THEN 0 ELSE Head(items)[c] + SumCoord(Tail(items), c)

\* centroid /= len(mesh): a rational; numpy yields nan (0/0), with a warning
\* and no exception, when the list is empty
MeanCentroid(items) == [c \in 1..3 |-> <<SumCoord(items, c), Len(items)>>]

\* the whole call show(mesh, print_kcmds, offscreen, plot_image)
ShowResult(m, kcmds, off, plot) ==
    LET items == IF m.is_list THEN m.items ELSE <<m.items[1]>>
        sc    == [meshes |-> Len(items), cameras |-> 0, lights |-> 0]
        cen   == MeanCentroid(items)
        base  == [status |-> "ok", scene |-> sc, centroid |-> cen,
                  viewer |-> <<>>, printed |-> FALSE, img |-> <<>>,
                  ret |-> "none"]
    IN IF ~off
       THEN [base EXCEPT !.printed = kcmds, !.viewer = <<800, 600>>,
                         !.ret = "None"]
       ELSE IF "os" \notin Imports
       THEN [base EXCEPT !.status = "NameError"]
       ELSE IF plot /\ "plt" \notin Imports
       THEN [base EXCEPT !.status = "NameError",
                         !.scene = [sc EXCEPT !.cameras = 1, !.lights = 1]]
       ELSE [base EXCEPT !.scene = [sc EXCEPT !.cameras = 1, !.lights = 1],
                         !.img = <<480 * 2, 640 * 2>>, !.ret = "img"]

\* the mesh arguments: a list of at most MaxMeshes meshes, or a single mesh
MeshLists ==
    UNION {[1..n -> Centroids] : n \in 0..MaxMeshes}

MeshArgs ==
    {[is_list |-> TRUE, items |-> l] : l \in MeshLists}
    \cup {[is_list |-> FALSE, items |-> <<c>>] : c \in Centroids}

Show ==
    /\ \E m \in MeshArgs : \E kcmds \in BOOLEAN :
         \E off \in BOOLEAN : \E plot \in BOOLEAN :
           LET r == ShowResult(m, kcmds, off, plot)
           IN /\ sh_mesh' = m
              /\ print_kcmds' = kcmds
              /\ offscreen' = off
              /\ plot_image' = plot
              /\ sh_status' = r.status
              /\ scene' = r.scene
              /\ centroid' = r.centroid
              /\ viewer' = r.viewer
              /\ printed' = r.printed
              /\ img' = r.img
              /\ ret' = r.ret
    /\ UNCHANGED mvars

Next == HmapToTrimesh

Spec == Init /\ [][Next]_vars

\* the scene composer on its own, the caller's grid being a flat 2 x 2 grid
InitShow ==
    /\ z = [shape |-> <<2, 2>>, data |-> <<0, 0, 0, 0>>]
    /\ z_orig = z
    /\ z_in = z
    /\ x = NoneArg
    /\ y = NoneArg
    /\ add_skirt = FALSE
    /\ status = "none"
    /\ mesh = NoMesh
    /\ calls = 0
    /\ InitShowVars

NextShow == Show

SpecShow == InitShow /\ [][NextShow]_vars

\* ---- properties of hmap_to_trimesh --------------------------------------
NX == z.shape[1]

NY == z.shape[2]

Called == status # "none"

\* the flattened indices of the border samples and of the quad cells
Border == {k \in 0..(NX * NY - 1) :
             \/ k \div NY = 0
             \/ k \div NY = NX - 1
             \/ k % NY = 0
             \/ k % NY = NY - 1}

Cells == {r * NY + c : r \in 0..(NX - 2), c \in 0..(NY - 2)}

FaceSet == {mesh.faces[f] : f \in 1..Len(mesh.faces)}

\* the coordinate arguments fit the grid: omitted, or 1D axes of nx and ny
\* samples
AxesFit ==
    \/ IsNone(x)
    \/ x.shape = <<NX>> /\ y.shape = <<NY>>

\* the coordinate arguments are full 2D grids of the grid's shape
GridsFit == x.shape = <<NX, NY>> /\ y.shape = <<NX, NY>>

\* C1: on a grid of at least 2 x 2 samples a call with the coordinates omitted
\* or given as fitting axes returns a mesh, and every returned mesh has nx * ny
\* vertices and 2 * (nx - 1) * (ny - 1) faces whose indices lie in 0..nx*ny-1.
C1_MeshSize ==
    (Called /\ NX >= 2 /\ NY >= 2) =>
        /\ AxesFit => status = "ok"
        /\ status = "ok" =>
             /\ Len(mesh.vertices) = NX * NY
             /\ Len(mesh.faces) = 2 * (NX - 1) * (NY - 1)
             /\ \A f \in 1..Len(mesh.faces) : \A c \in 1..3 :
                  mesh.faces[f][c] \in 0..(NX * NY - 1)

C1_Witness ==
    /\ status = "ok"
    /\ NX = 3
    /\ NY = 2
    /\ Len(mesh.vertices) = 6
    /\ Len(mesh.faces) = 4

\* C2: a call on a grid with nx < 2 or ny < 2 fails with InvalidShapeError and
\* returns no mesh.
C2_InvalidShape ==
    (Called /\ (NX < 2 \/ NY < 2)) =>
        (status = "InvalidShapeError" /\ mesh = NoMesh)

\* C4: after a returning call with add_skirt, every border sample equals
\* min - 0.05 * (max - min) of the grid as it was before the call.
C4_SkirtFloor ==
    (status = "ok" /\ add_skirt) =>
        \A k \in Border :
            100 * z.data[k + 1] =
                100 * ArrMin(z_in) - 5 * (ArrMax(z_in) - ArrMin(z_in))

C4_Witness ==
    /\ status = "ok"
    /\ add_skirt
    /\ NX = 3
    /\ NY = 3
    /\ ArrMax(z_in) > ArrMin(z_in)
    /\ z # z_in

\* C5: the faces of a returned mesh are exactly, for every quad cell of base
\* index i, the triangles (i, i+ny+1, i+1) and (i, i+ny, i+ny+1), each once.
C5_FaceOffsets ==
    status = "ok" =>
        /\ FaceSet = {<<i, i + NY + 1, i + 1>> : i \in Cells}
                     \cup {<<i, i + NY, i + NY + 1>> : i \in Cells}
        /\ Len(mesh.faces) = 2 * Cardinality(Cells)

C5_Witness ==
    /\ status = "ok"
    /\ NX = 2
    /\ NY = 3
    /\ <<1, 5, 2>> \in FaceSet
    /\ <<1, 4, 5>> \in FaceSet

\* lattice position of vertex k and twice the signed area of a triangle
Row(k) == k \div NY

Col(k) == k % NY

Area2(t) ==
    (Row(t[2]) - Row(t[1])) * (Col(t[3]) - Col(t[1]))
    - (Row(t[3]) - Row(t[1])) * (Col(t[2]) - Col(t[1]))

\* the positions in the face list of the triangles lying in the cell of base i
CellFaces(i) ==
    {f \in 1..Len(mesh.faces) :
        {mesh.faces[f][1], mesh.faces[f][2], mesh.faces[f][3]}
            \subseteq {i, i + 1, i + NY, i + NY + 1}}

\* C6: in a returned mesh every quad cell holds two triangles with exactly two
\* vertex indices in common, and all triangles have the same sign of signed
\* area on the lattice.
C6_Winding ==
    status = "ok" =>
        /\ \A i \in Cells :
             /\ Cardinality(CellFaces(i)) = 2
             /\ \A f, g \in CellFaces(i) :
                  f # g =>
                    Cardinality({mesh.faces[f][1], mesh.faces[f][2], mesh.faces[f][3]}
                                \cap {mesh.faces[g][1], mesh.faces[g][2], mesh.faces[g][3]}) = 2
        /\ \/ \A t \in FaceSet : Area2(t) > 0
           \/ \A t \in FaceSet : Area2(t) < 0

C6_Witness ==
    /\ status = "ok"
    /\ NX = 3
    /\ NY = 3
    /\ Len(mesh.faces) = 8

\* C7: a call whose coordinate arguments do not fit the grid's shape fails
\* with an error: no mesh is returned.
C7_FailFast ==
    (Called /\ ~AxesFit /\ ~GridsFit) => status # "ok"

\* C8: with x and y given as full 2D grids of the grid's shape the call
\* returns, and vertex r * ny + c is (x[r, c], y[r, c], z[r, c]).
C8_GridsAsIs ==
    (Called /\ GridsFit) =>
        /\ status = "ok"
        /\ Len(mesh.vertices) = NX * NY
        /\ \A k \in 1..(NX * NY) :
             mesh.vertices[k] = <<x.data[k], y.data[k], <<z.data[k], Scale>>>>

\* C10: interior samples keep their original value over any sequence of calls;
\* a call without skirt leaves the grid as it was, a call with skirt changes
\* border samples only.
C10_Frame ==
    /\ z.shape = z_orig.shape
    /\ \A k \in (0..(NX * NY - 1)) \ Border : z.data[k + 1] = z_orig.data[k + 1]
    /\ (Called /\ ~add_skirt) => z = z_in
    /\ (Called /\ add_skirt) =>
          \A k \in (0..(NX * NY - 1)) \ Border : z.data[k + 1] = z_in.data[k + 1]

C10_Witness ==
    /\ calls = 2
    /\ add_skirt
    /\ NX = 3
    /\ NY = 3
    /\ z.data[5] = Scale
    /\ z # z_in
    /\ z_in # z_orig

\* ---- properties of show -------------------------------------------------
ShowCalled == sh_status # "none"

\* C3: show on an empty list of meshes fails with EmptyMeshListError, in
\* either mode, and opens no viewer and renders nothing.
C3_EmptyList ==
    (ShowCalled /\ sh_mesh.is_list /\ sh_mesh.items = <<>>) =>
        /\ sh_status = "EmptyMeshListError"
        /\ viewer = <<>>
        /\ img = <<>>

\* C9: show with offscreen and at least one mesh raises nothing and returns an
\* image of height 960 and width 1280, the scene holding one spot light and one
\* camera.
C9_Offscreen ==
    (ShowCalled /\ offscreen /\ scene.meshes >= 1) =>
        /\ sh_status = "ok"
        /\ ret = "img"
        /\ img = <<960, 1280>>
        /\ scene.lights = 1
        /\ scene.cameras = 1

====
